---- MODULE Spec2Model ----
(***************************************************************************)
(* The authoritative game-state server of knife-fight                      *)
(* (src/backend/server.js): two spawn slots, the players map, the knives   *)
(* map, the 30 second match timer and the 60 Hz game loop.  Every socket   *)
(* handler, the timer callback and the game loop run to completion on the  *)
(* Node event loop, so each one is a single atomic action here.            *)
(***************************************************************************)
EXTENDS Integers, Sequences, FiniteSets, TLC

(* ------------------------------ bounds -------------------------------- *)
\* Spec: the number of socket connections ever opened (socket ids are never
\* reused) and of knife intents ever sent (knife ids are fresh).
MaxConns == 2
MaxKnives == 2
\* SpecCrowd: the same two bounds, with a third connection that can stay
\* outside the match.
CrowdConns == 3
CrowdKnives == 1

(* ------------------------- program constants -------------------------- *)
GameSeconds == 30
ArenaX == 400
ArenaY == 300
ArenaRadius == 250
HitRadius == 25
SpawnX == 400
SpawnTopY == 200
SpawnBottomY == 400
\* JavaScript null for a slot's playerId and for the gameTimer handle.
Null == 0

Positions == {"top", "bottom"}
\* Every socket id either specification hands out.
Conns == 1..(MaxConns + CrowdConns)
KnifeIdRange == 1..(MaxKnives + CrowdKnives)

(* ------------------------------ inputs -------------------------------- *)
\* Payloads of the move intent: a point exactly 25 units from (550,500).
MovePoints == {<<565, 520>>}
\* Payloads (x, y, dx, dy) of the knife intent.
\* Thrown from the centre: to (550,500), exactly 250 from the centre, then
\* to (700,700), outside the arena.  Thrown from (550,500): outside at once.
KnifeShots == { <<400, 300, 150, 200>>, <<550, 500, 150, 200>> }

VARIABLES
    sockets,        \* ids of the sockets connected now
    nextConn,       \* id the next connection gets
    players,        \* the players object, in key insertion order
    knives,         \* the knives Map, in insertion order
    knifeSeq,       \* number of knife ids generated so far
    spawnSlots,     \* [top, bottom] -> [occupied, playerId]
    gameTimer,      \* handle of the interval, or Null
    timers,         \* the live intervals: [h, timeLeft]
    gameInProgress,
    gameEndScores,  \* <<>> for null, <<scores>> for an object
    emitted,        \* what the last step emitted (and logged), in order
    crashed,        \* an uncaught exception has ended the process
    lastOp,         \* history: the name of the step taken last
    credited,       \* history: hits the game loop credited in this match
    lastTimerValue  \* history: last gameTimerUpdate broadcast in this match

vars == <<sockets, nextConn, players, knives, knifeSeq, spawnSlots, gameTimer,
          timers, gameInProgress, gameEndScores, emitted, crashed, lastOp,
          credited, lastTimerValue>>

(* ------------------------------ events -------------------------------- *)
\* io.emit
ToAll(name, data) == [name |-> name, to |-> "all", sock |-> Null, data |-> data]
\* socket.emit
ToSocket(s, name, data) == [name |-> name, to |-> "socket", sock |-> s, data |-> data]
\* socket.broadcast.emit
ToOthers(s, name, data) == [name |-> name, to |-> "others", sock |-> s, data |-> data]


(* --------------------------- the players map -------------------------- *)
PlayerIds(ps) == {ps[i].id : i \in DOMAIN ps}
HasPlayer(ps, id) == \E i \in DOMAIN ps : ps[i].id = id
PlayerIndex(ps, id) == CHOOSE i \in DOMAIN ps : ps[i].id = id
GetPlayer(ps, id) == ps[PlayerIndex(ps, id)]
\* Faulty variant: the record stays in the map.
DeletePlayerNot(ps, id) == ps

\* delete players[id]
DeletePlayer(ps, id) == SelectSeq(ps, LAMBDA p : p.id # id)
\* Object.keys(players)
PlayerKeys(ps) == [i \in DOMAIN ps |-> ps[i].id]
\* players[id] = rec: an existing key keeps its place, a new key goes last
PutPlayer(ps, rec) ==
    IF HasPlayer(ps, rec.id)
    THEN [ps EXCEPT ![PlayerIndex(ps, rec.id)] = rec]
    ELSE Append(ps, rec)

EmptySlot == [occupied |-> FALSE, playerId |-> Null]
OtherPosition(position) == IF position = "top" THEN "bottom" ELSE "top"
SpawnY(position) == IF position = "top" THEN SpawnTopY ELSE SpawnBottomY

KnifeIds(ks) == {ks[i].id : i \in DOMAIN ks}
\* Faulty variant: the knife stays in the map.
DeleteKnifeNot(ks, id) == ks

DeleteKnife(ks, id) == SelectSeq(ks, LAMBDA k : k.id # id)

(* ------------------------- the server's globals ----------------------- *)
\* The mutable globals of server.js as one value, so that a handler that
\* calls startGameTimer or endGame composes with it.
Cur ==
    [players |-> players, knives |-> knives, spawnSlots |-> spawnSlots,
     gameTimer |-> gameTimer, timers |-> timers,
     gameInProgress |-> gameInProgress, gameEndScores |-> gameEndScores,
     emitted |-> <<>>, crashed |-> FALSE,
     credited |-> credited, lastTimerValue |-> lastTimerValue]

Commit(s) ==
    /\ players' = s.players
    /\ knives' = s.knives
    /\ spawnSlots' = s.spawnSlots
    /\ gameTimer' = s.gameTimer
    /\ timers' = s.timers
    /\ gameInProgress' = s.gameInProgress
    /\ gameEndScores' = s.gameEndScores
    /\ emitted' = s.emitted
    /\ crashed' = s.crashed
    /\ credited' = s.credited
    /\ lastTimerValue' = s.lastTimerValue

Emit(s, e) == [s EXCEPT !.emitted = Append(@, e)]
\* line 138: console.log(`Player ${socket.id} despawned from ${otherPosition}`)
LogDespawned(c, position) ==
    [name |-> "despawned", to |-> "console", sock |-> c, data |-> position]

(* ------------------------------ timers -------------------------------- *)
\* Faulty variant: clearing has no effect, the interval keeps firing.
ClearTimerNot(ts, h) == ts

\* clearTimeout(h): the interval with that handle never fires again
ClearTimer(ts, h) == {t \in ts : t.h # h}
\* the handle setInterval returns: one no live interval has
FreshHandle(ts) == CHOOSE h \in 1..(Cardinality(ts) + 1) : \A t \in ts : t.h # h

\* Faulty variant: starting a match keeps the snapshot of the previous one.
startGameTimerKeepScores(s) ==
    LET cleared == IF s.gameTimer # Null THEN ClearTimer(s.timers, s.gameTimer)
                   ELSE s.timers
        h == FreshHandle(cleared)
        s1 == [s EXCEPT !.gameInProgress = TRUE,
                        !.credited = [c \in Conns |-> 0]]
        s2 == [Emit(s1, ToAll("gameTimerUpdate", GameSeconds))
                 EXCEPT !.lastTimerValue = GameSeconds]
    IN  [s2 EXCEPT !.timers = cleared \cup {[h |-> h, timeLeft |-> GameSeconds]},
                   !.gameTimer = h]

\* startGameTimer()
startGameTimer(s) ==
    LET cleared == IF s.gameTimer # Null THEN ClearTimer(s.timers, s.gameTimer)
                   ELSE s.timers
        h == FreshHandle(cleared)
        s1 == [s EXCEPT !.gameInProgress = TRUE,
                        !.gameEndScores = <<>>,
                        !.credited = [c \in Conns |-> 0]]
        s2 == [Emit(s1, ToAll("gameTimerUpdate", GameSeconds))
                 EXCEPT !.lastTimerValue = GameSeconds]
    IN  [s2 EXCEPT !.timers = cleared \cup {[h |-> h, timeLeft |-> GameSeconds]},
                   !.gameTimer = h]

\* The final scores endGame stores: every key of players with its points.
FinalScores(ps) == [id \in PlayerIds(ps) |-> GetPlayer(ps, id).points]

\* Faulty variant: endGame despawns nobody.
DespawnAllNone(s, todo) == s

\* The "force despawn" loop of endGame over Object.entries(spawnSlots).
RECURSIVE DespawnAll(_, _)
DespawnAll(s, todo) ==
    IF todo = <<>> THEN s
    ELSE LET position == Head(todo)
             slot == s.spawnSlots[position]
         IN  IF slot.occupied
             THEN DespawnAll([s EXCEPT !.spawnSlots[position] = EmptySlot,
                                       !.players = DeletePlayer(@, slot.playerId)],
                             Tail(todo))
             ELSE DespawnAll(s, Tail(todo))

\* endGame()
endGame(s) ==
    LET s1 == IF s.gameTimer # Null
              THEN [s EXCEPT !.timers = ClearTimer(@, s.gameTimer),
                             !.gameTimer = Null]
              ELSE s
        s2 == [s1 EXCEPT !.gameEndScores = <<FinalScores(s1.players)>>]
        s3 == DespawnAll(s2, <<"top", "bottom">>)
        s4 == [s3 EXCEPT !.knives = <<>>, !.gameInProgress = FALSE,
                         !.credited = [c \in Conns |-> 0],
                         !.lastTimerValue = Null]
        s5 == Emit(s4, ToAll("gameEnd", [scores |-> s4.gameEndScores[1]]))
        s6 == Emit(s5, ToAll("spawnSlotsUpdate", s5.spawnSlots))
        s7 == Emit(s6, ToAll("playerLeft", PlayerKeys(s6.players)))
    IN  Emit(s7, ToAll("knivesUpdate", <<>>))

\* The setInterval callback of startGameTimer, for the interval t.
TimerFired(s, t) ==
    LET left == t.timeLeft - 1
        s1 == [s EXCEPT !.timers = (@ \ {t}) \cup {[t EXCEPT !.timeLeft = left]}]
        s2 == [Emit(s1, ToAll("gameTimerUpdate", left)) EXCEPT !.lastTimerValue = left]
    IN  IF left <= 0 THEN endGame(s2) ELSE s2

(* --------------------------- socket handlers -------------------------- *)
\* Faulty variant: the new socket is sent a timer value whatever the match state.
connectionAlwaysTimer(s, c) ==
    LET s1 == Emit(s, ToSocket(c, "spawnSlotsUpdate", s.spawnSlots))
        s2 == Emit(s1, ToSocket(c, "gameTimerUpdate", GameSeconds))
    IN  IF s2.gameEndScores # <<>>
        THEN Emit(s2, ToSocket(c, "gameEnd", [scores |-> s2.gameEndScores[1]]))
        ELSE s2

\* io.on('connection'): what the new socket is sent
connection(s, c) ==
    LET s1 == Emit(s, ToSocket(c, "spawnSlotsUpdate", s.spawnSlots))
        s2 == IF s1.gameInProgress
              THEN Emit(s1, ToSocket(c, "gameTimerUpdate", GameSeconds))
              ELSE s1
    IN  IF s2.gameEndScores # <<>>
        THEN Emit(s2, ToSocket(c, "gameEnd", [scores |-> s2.gameEndScores[1]]))
        ELSE s2

\* Faulty variant: the occupancy check never refuses.
SlotTakenNever(slots, position, c) == FALSE

\* line 143: the requested slot is held by another player
SlotTaken(slots, position, c) ==
    slots[position].occupied /\ slots[position].playerId # c

\* Faulty variant: one occupied slot is enough to start a match.
BothOccupiedEither(s) ==
    (s.spawnSlots["top"].occupied \/ s.spawnSlots["bottom"].occupied)
        /\ ~s.gameInProgress

\* line 172: this spawn starts a match
BothOccupied(s) ==
    s.spawnSlots["top"].occupied /\ s.spawnSlots["bottom"].occupied
        /\ ~s.gameInProgress

\* Faulty variant: a new record starts with one point.
NewPlayerWithPoint(c, position) ==
    [id |-> c, x |-> SpawnX, y |-> SpawnY(position), points |-> 1,
     spawnPosition |-> position]

\* Faulty variant: the record is placed at the other slot's coordinate.
NewPlayerElsewhere(c, position) ==
    [id |-> c, x |-> SpawnX, y |-> SpawnY(OtherPosition(position)), points |-> 0,
     spawnPosition |-> position]

NewPlayer(c, position) ==
    [id |-> c, x |-> SpawnX, y |-> SpawnY(position), points |-> 0,
     spawnPosition |-> position]

\* Faulty variant: a side switch keeps the slot it leaves.
HoldsSlotNever(slots, position, c) == FALSE

\* line 137: the requester holds that slot
HoldsSlot(slots, position, c) == slots[position].playerId = c

\* Faulty variant: spawn changes are accepted while a match runs.
SpawnLockedNever(s) == FALSE

\* line 119: spawn changes are refused while a match runs
SpawnLocked(s) == s.gameInProgress

\* socket.on('requestSpawn')
requestSpawn(s, c, position) ==
    IF SpawnLocked(s)
    THEN Emit(s, ToSocket(c, "spawnRejected",
                          [position |-> position, reason |-> "game_in_progress"]))
    ELSE IF s.spawnSlots[position].playerId = c
    THEN LET s1 == [s EXCEPT !.spawnSlots[position] = EmptySlot,
                             !.players = DeletePlayer(@, c)]
             s2 == Emit(s1, ToAll("spawnSlotsUpdate", s1.spawnSlots))
         IN  Emit(s2, ToAll("playerLeft", c))
    ELSE LET other == OtherPosition(position)
             s1 == IF HoldsSlot(s.spawnSlots, other, c)
                   THEN Emit([s EXCEPT !.spawnSlots[other] = EmptySlot],
                             LogDespawned(c, other))
                   ELSE s
         IN  IF SlotTaken(s1.spawnSlots, position, c)
             THEN Emit(s1, ToSocket(c, "spawnRejected",
                           [position |-> position, reason |-> "slot_occupied"]))
             ELSE LET s2 == [s1 EXCEPT
                               !.spawnSlots[position] =
                                   [occupied |-> TRUE, playerId |-> c],
                               !.players = PutPlayer(@, NewPlayer(c, position))]
                      s3 == Emit(s2, ToAll("spawnSlotsUpdate", s2.spawnSlots))
                      s4 == Emit(s3, ToAll("players", s3.players))
                      s5 == Emit(s4, ToOthers(c, "playerJoined",
                                              GetPlayer(s4.players, c)))
                      s6 == Emit(s5, ToAll("knivesUpdate", s5.knives))
                  IN  IF BothOccupied(s6) THEN startGameTimer(s6) ELSE s6

\* socket.on('move')
move(s, c, data) ==
    IF HasPlayer(s.players, c)
    THEN LET i == PlayerIndex(s.players, c)
             s1 == [s EXCEPT !.players[i].x = data[1], !.players[i].y = data[2]]
         IN  Emit(s1, ToOthers(c, "playerMoved",
                               [id |-> c, x |-> data[1], y |-> data[2]]))
    ELSE s

\* Faulty variant: the new knife takes the place of the live ones.
knifeReplace(s, c, knifeData, knifeId) ==
    LET k == [x |-> knifeData.x, y |-> knifeData.y, dx |-> knifeData.dx,
              dy |-> knifeData.dy, shooterId |-> knifeData.shooterId,
              id |-> knifeId]
        s1 == [s EXCEPT !.knives = <<k>>]
    IN  Emit(s1, ToAll("knifeFired", k))

\* socket.on('knife'): knifeData is stored under a fresh id
knife(s, c, knifeData, knifeId) ==
    LET k == [x |-> knifeData.x, y |-> knifeData.y, dx |-> knifeData.dx,
              dy |-> knifeData.dy, shooterId |-> knifeData.shooterId,
              id |-> knifeId]
        s1 == [s EXCEPT !.knives = Append(@, k)]
    IN  Emit(s1, ToAll("knifeFired", k))

\* Faulty variant: destroyKnife announces the removal without looking for the knife.
destroyKnifeBlind(s, c, knifeId) ==
    Emit([s EXCEPT !.knives = DeleteKnife(@, knifeId)],
         ToAll("knifeDestroyed", [knifeId |-> knifeId]))

\* socket.on('destroyKnife')
destroyKnife(s, c, knifeId) ==
    IF knifeId \in KnifeIds(s.knives)
    THEN Emit([s EXCEPT !.knives = DeleteKnife(@, knifeId)],
              ToAll("knifeDestroyed", [knifeId |-> knifeId]))
    ELSE s

\* socket.on('knifeHit')
knifeHit(s, c, data) ==
    LET s1 == IF data.knifeId \in KnifeIds(s.knives)
              THEN [s EXCEPT !.knives = DeleteKnife(@, data.knifeId)]
              ELSE s
    IN  Emit(s1, ToAll("knifeHit", data))

\* Faulty variant: the server takes over the points a client reports.
pointsUpdateApplied(s, c, data) ==
    Emit(IF HasPlayer(s.players, data.playerId)
         THEN [s EXCEPT !.players[PlayerIndex(s.players, data.playerId)].points =
                            data.points]
         ELSE s,
         ToAll("pointsUpdate", data))

\* socket.on('pointsUpdate')
pointsUpdate(s, c, data) == Emit(s, ToAll("pointsUpdate", data))

\* Faulty variant: the disconnect handler leaves the slots alone.
FreeSlotsOfNone(slots, c, todo) == slots

\* The loop of the disconnect handler over Object.entries(spawnSlots).
RECURSIVE FreeSlotsOf(_, _, _)
FreeSlotsOf(slots, c, todo) ==
    IF todo = <<>> THEN slots
    ELSE FreeSlotsOf(IF slots[Head(todo)].playerId = c
                     THEN [slots EXCEPT ![Head(todo)] = EmptySlot]
                     ELSE slots,
                     c, Tail(todo))

\* Faulty variant: the match is ended before the leaver's record is deleted.
disconnectEndsFirst(s, c) ==
    LET s0 == IF s.gameInProgress THEN endGame(s) ELSE s
        s1 == [s0 EXCEPT !.spawnSlots = FreeSlotsOf(@, c, <<"top", "bottom">>),
                         !.players = DeletePlayer(@, c)]
        s2 == Emit(s1, ToAll("spawnSlotsUpdate", s1.spawnSlots))
    IN  Emit(s2, ToAll("playerLeft", c))

\* Faulty variant: the disconnect handler frees the slot but keeps the record.
disconnectKeepsRecord(s, c) ==
    LET s1 == [s EXCEPT !.spawnSlots = FreeSlotsOf(@, c, <<"top", "bottom">>)]
        s2 == Emit(s1, ToAll("spawnSlotsUpdate", s1.spawnSlots))
        s3 == Emit(s2, ToAll("playerLeft", c))
    IN  IF s3.gameInProgress THEN endGame(s3) ELSE s3

\* socket.on('disconnect')
disconnect(s, c) ==
    LET s1 == [s EXCEPT !.spawnSlots = FreeSlotsOf(@, c, <<"top", "bottom">>),
                        !.players = DeletePlayer(@, c)]
        s2 == Emit(s1, ToAll("spawnSlotsUpdate", s1.spawnSlots))
        s3 == Emit(s2, ToAll("playerLeft", c))
    IN  IF s3.gameInProgress THEN endGame(s3) ELSE s3

(* ------------------------------ game loop ----------------------------- *)
DistSq(x1, y1, x2, y2) == (x1 - x2) * (x1 - x2) + (y1 - y2) * (y1 - y2)
\* line 253: Math.hypot(nextX - 400, nextY - 300) > 250
OutOfBounds(x, y) == DistSq(x, y, ArenaX, ArenaY) > ArenaRadius * ArenaRadius
\* line 264: Math.hypot(nextX - player.x, nextY - player.y) <= 25
Collides(x, y, p) == DistSq(x, y, p.x, p.y) <= HitRadius * HitRadius

\* lines 260-265: the player the knife k hits at (x, y): the first one of
\* Object.entries(players) that is not the shooter and collides; 0 if none.
HitIndex(ps, k, x, y) ==
    LET hits == {i \in DOMAIN ps : ps[i].id # k.shooterId /\ Collides(x, y, ps[i])}
    IN  IF hits = {} THEN 0 ELSE CHOOSE i \in hits : \A j \in hits : i <= j

\* Faulty variant: a hit is worth two points.
CreditShooterTwice(s, shooterId) ==
    IF HasPlayer(s.players, shooterId)
    THEN [s EXCEPT !.players[PlayerIndex(s.players, shooterId)].points = @ + 2,
                   !.credited[shooterId] = @ + 1]
    ELSE s

\* lines 270-273: the shooter's points go up by one, if the shooter has a record
CreditShooter(s, shooterId) ==
    IF HasPlayer(s.players, shooterId)
    THEN [s EXCEPT !.players[PlayerIndex(s.players, shooterId)].points = @ + 1,
                   !.credited[shooterId] = @ + 1]
    ELSE s

\* knife.x = nextX; knife.y = nextY
MoveKnife(ks, id, x, y) ==
    [i \in DOMAIN ks |-> IF ks[i].id = id THEN [ks[i] EXCEPT !.x = x, !.y = y]
                         ELSE ks[i]]

\* The body of the for loop over knives.entries(), for the entries todo.
\* Line 285 reads players[knife.shooterId].points: with no record for the
\* shooter that is a TypeError, which nothing catches, and the loop ends there.
RECURSIVE UpdateKnives(_, _)
UpdateKnives(s, todo) ==
    IF todo = <<>> THEN s
    ELSE LET k == Head(todo)
             nextX == k.x + k.dx
             nextY == k.y + k.dy
         IN  IF OutOfBounds(nextX, nextY)
             THEN UpdateKnives([s EXCEPT !.knives = DeleteKnife(@, k.id)], Tail(todo))
             ELSE LET hit == HitIndex(s.players, k, nextX, nextY)
                  IN  IF hit = 0
                      THEN UpdateKnives([s EXCEPT !.knives =
                                            MoveKnife(@, k.id, nextX, nextY)],
                                        Tail(todo))
                      ELSE LET s1 == CreditShooter(s, k.shooterId)
                               s2 == Emit(s1, ToAll("knifeHit",
                                         [knifeId |-> k.id,
                                          hitPlayerId |-> s.players[hit].id,
                                          shooterId |-> k.shooterId]))
                           IN  IF ~HasPlayer(s2.players, k.shooterId)
                               THEN [s2 EXCEPT !.crashed = TRUE]
                               ELSE LET s3 == Emit(s2, ToAll("pointsUpdate",
                                              [playerId |-> k.shooterId,
                                               points |-> GetPlayer(s2.players,
                                                            k.shooterId).points]))
                                    IN  UpdateKnives([s3 EXCEPT !.knives =
                                                         DeleteKnife(@, k.id)],
                                                     Tail(todo))

\* Faulty variant: the list is broadcast also when no knife is left.
gameLoopAlwaysLists(s) ==
    LET s1 == UpdateKnives(s, s.knives)
    IN  IF ~s1.crashed
        THEN Emit(s1, ToAll("knivesUpdate", s1.knives))
        ELSE s1

\* The setInterval callback of the game loop.
gameLoop(s) ==
    LET s1 == UpdateKnives(s, s.knives)
    IN  IF ~s1.crashed /\ Len(s1.knives) > 0
        THEN Emit(s1, ToAll("knivesUpdate", s1.knives))
        ELSE s1

(* ------------------------------ the steps ----------------------------- *)
Init ==
    /\ sockets = {}
    /\ nextConn = 1
    /\ players = <<>>
    /\ knives = <<>>
    /\ knifeSeq = 0
    /\ spawnSlots = [p \in Positions |-> EmptySlot]
    /\ gameTimer = Null
    /\ timers = {}
    /\ gameInProgress = FALSE
    /\ gameEndScores = <<>>
    /\ emitted = <<>>
    /\ crashed = FALSE
    /\ lastOp = "listen"
    /\ credited = [c \in Conns |-> 0]
    /\ lastTimerValue = Null

Connect(maxConns) ==
    /\ ~crashed
    /\ nextConn <= maxConns
    /\ sockets' = sockets \cup {nextConn}
    /\ nextConn' = nextConn + 1
    /\ Commit(connection(Cur, nextConn))
    /\ lastOp' = "connection"
    /\ UNCHANGED knifeSeq

RequestSpawnBy(c, position) ==
    /\ ~crashed
    /\ c \in sockets
    /\ Commit(requestSpawn(Cur, c, position))
    /\ lastOp' = "requestSpawn"
    /\ UNCHANGED <<sockets, nextConn, knifeSeq>>

RequestSpawn == \E c \in sockets, position \in Positions : RequestSpawnBy(c, position)

Move ==
    /\ ~crashed
    /\ \E c \in sockets, data \in MovePoints :
          /\ Commit(move(Cur, c, data))
          /\ lastOp' = "move"
    /\ UNCHANGED <<sockets, nextConn, knifeSeq>>

\* The payload carries the shooterId the client puts in it: its own socket
\* id (src/unnamed/part_001, line 240).
KnifeBy(c, shot, maxKnives) ==
    /\ ~crashed
    /\ c \in sockets
    /\ knifeSeq < maxKnives
    /\ \E shooter \in {c} :
          /\ Commit(knife(Cur, c,
                          [x |-> shot[1], y |-> shot[2], dx |-> shot[3],
                           dy |-> shot[4], shooterId |-> shooter],
                          knifeSeq + 1))
          /\ lastOp' = "knife"
    /\ knifeSeq' = knifeSeq + 1
    /\ UNCHANGED <<sockets, nextConn>>

Knife(maxKnives) ==
    \E c \in sockets, shot \in KnifeShots : KnifeBy(c, shot, maxKnives)

\* The knifeId of a report is any id, live, gone or not handed out yet.
DestroyKnifeOf(c, knifeId) ==
    /\ ~crashed
    /\ c \in sockets
    /\ Commit(destroyKnife(Cur, c, knifeId))
    /\ lastOp' = "destroyKnife"
    /\ UNCHANGED <<sockets, nextConn, knifeSeq>>

DestroyKnife(maxKnives) ==
    \E c \in sockets, knifeId \in 1..maxKnives : DestroyKnifeOf(c, knifeId)

HitReport(knifeId) == [knifeId |-> knifeId, hitPlayerId |-> 1, shooterId |-> 2]

KnifeHitOf(c, knifeId) ==
    /\ ~crashed
    /\ c \in sockets
    /\ Commit(knifeHit(Cur, c, HitReport(knifeId)))
    /\ lastOp' = "knifeHit"
    /\ UNCHANGED <<sockets, nextConn, knifeSeq>>

KnifeHit(maxKnives) ==
    \E c \in sockets, knifeId \in 1..maxKnives : KnifeHitOf(c, knifeId)

PointsUpdate ==
    /\ ~crashed
    /\ \E c \in sockets :
          /\ Commit(pointsUpdate(Cur, c, [playerId |-> 1, points |-> 7]))
          /\ lastOp' = "pointsUpdate"
    /\ UNCHANGED <<sockets, nextConn, knifeSeq>>

DisconnectOf(c) ==
    /\ ~crashed
    /\ c \in sockets
    /\ Commit(disconnect(Cur, c))
    /\ sockets' = sockets \ {c}
    /\ lastOp' = "disconnect"
    /\ UNCHANGED <<nextConn, knifeSeq>>

Disconnect == \E c \in sockets : DisconnectOf(c)

GameLoop ==
    /\ ~crashed
    /\ Commit(gameLoop(Cur))
    /\ lastOp' = "gameLoop"
    /\ UNCHANGED <<sockets, nextConn, knifeSeq>>

Countdown ==
    /\ ~crashed
    /\ \E t \in timers :
          /\ Commit(TimerFired(Cur, t))
          /\ lastOp' = "countdown"
    /\ UNCHANGED <<sockets, nextConn, knifeSeq>>

NextWithin(maxConns, maxKnives) ==
    \/ Connect(maxConns)
    \/ RequestSpawn
    \/ Move
    \/ Knife(maxKnives)
    \/ DestroyKnife(maxKnives)
    \/ KnifeHit(maxKnives)
    \/ PointsUpdate
    \/ Disconnect
    \/ GameLoop
    \/ Countdown

Next == NextWithin(MaxConns, MaxKnives)
NextCrowd == NextWithin(CrowdConns, CrowdKnives)

\* Two connections that fire up to MaxKnives knives.
Spec == Init /\ [][Next]_vars
\* Three connections that fire up to CrowdKnives knives.
SpecCrowd == Init /\ [][NextCrowd]_vars

(* ====================================================================== *)
(* Properties                                                              *)
(* ====================================================================== *)
\* The state the claims speak of: slots, players, projectiles, match state.
core == <<spawnSlots, players, knives, gameInProgress, gameEndScores,
          gameTimer, timers>>

Occupants == {spawnSlots[p].playerId : p \in {q \in Positions : spawnSlots[q].occupied}}

\* C1: in every reachable state each of the two slots holds one player id or
\* none, a slot is marked occupied exactly when its playerId is not null, and
\* the playerId of an occupied slot is a key of the players map.
C1_SlotsConsistent ==
    /\ DOMAIN spawnSlots = Positions
    /\ \A p \in Positions :
          /\ spawnSlots[p].playerId \in Conns \cup {Null}
          /\ spawnSlots[p].occupied \in BOOLEAN
          /\ spawnSlots[p].occupied <=> spawnSlots[p].playerId # Null
          /\ spawnSlots[p].occupied => HasPlayer(players, spawnSlots[p].playerId)

\* C1 witness: a disconnect has just emptied one slot while the other is
\* still held by a player with a record.
C1_Witness ==
    /\ lastOp = "disconnect"
    /\ \E p \in Positions :
          /\ spawnSlots[p].occupied
          /\ HasPlayer(players, spawnSlots[p].playerId)
          /\ ~spawnSlots[OtherPosition(p)].occupied

\* C2: in every reachable state no player id occupies both slots.
C2_NoDoubleOccupancy ==
    ~(/\ spawnSlots["top"].occupied
      /\ spawnSlots["bottom"].occupied
      /\ spawnSlots["top"].playerId = spawnSlots["bottom"].playerId)

\* C2, the side switch: a requestSpawn by a player who holds the other slot
\* and is granted the requested one leaves the other slot empty.
C2_SwitchFreesOld ==
    \A c \in Conns, p \in Positions :
        (/\ lastOp' = "requestSpawn"
         /\ spawnSlots[OtherPosition(p)].playerId = c
         /\ RequestSpawnBy(c, p)
         /\ spawnSlots'[p].playerId = c)
        => /\ ~spawnSlots'[OtherPosition(p)].occupied
           /\ spawnSlots'[OtherPosition(p)].playerId = Null

\* C2: no player id ever occupies both slots, also after a player who holds
\* one slot requests the other.
C2_OneSlotPerPlayer == [](C2_NoDoubleOccupancy) /\ [][C2_SwitchFreesOld]_vars

\* C2 witness: a player who held one slot has just been granted the other
\* (the handler logged the slot it left) and now holds the requested slot only.
C2_Witness ==
    /\ lastOp = "requestSpawn"
    /\ Len(emitted) >= 2
    /\ emitted[1].to = "console"
    /\ emitted[2].name = "spawnSlotsUpdate"
    /\ spawnSlots[OtherPosition(emitted[1].data)].playerId = emitted[1].sock
    /\ ~spawnSlots[emitted[1].data].occupied

Rejected(c, position, reason) ==
    <<ToSocket(c, "spawnRejected", [position |-> position, reason |-> reason])>>

\* C3: with no match counting down, a requestSpawn for a slot occupied by a
\* different player is answered with spawnRejected slot_occupied to the
\* requester only, and leaves slots, players, projectiles and match state as
\* they were.
C3_OccupiedRejected ==
    [][\A c \in Conns, p \in Positions :
          (/\ lastOp' = "requestSpawn"
           /\ ~gameInProgress
           /\ spawnSlots[p].occupied
           /\ spawnSlots[p].playerId # c
           /\ RequestSpawnBy(c, p))
          => /\ emitted' = Rejected(c, p, "slot_occupied")
             /\ ~crashed'
             /\ UNCHANGED core]_vars

\* C3 witness: a request has just been rejected with slot_occupied.
C3_Witness ==
    /\ lastOp = "requestSpawn"
    /\ Len(emitted) = 1
    /\ emitted[1].name = "spawnRejected"
    /\ emitted[1].data.reason = "slot_occupied"
    /\ spawnSlots[emitted[1].data.position].occupied
    /\ spawnSlots[emitted[1].data.position].playerId # emitted[1].sock

\* C4: while a match counts down, every requestSpawn is answered with
\* spawnRejected game_in_progress to the requester only and changes no slot,
\* player, projectile or match state.
C4_LockedRejected ==
    [][\A c \in Conns, p \in Positions :
          (lastOp' = "requestSpawn" /\ gameInProgress /\ RequestSpawnBy(c, p))
          => /\ emitted' = Rejected(c, p, "game_in_progress")
             /\ ~crashed'
             /\ UNCHANGED core]_vars

\* C4 witness: during a countdown a player's request for the slot that player
\* holds (a despawn toggle) has just been rejected with game_in_progress.
C4_Witness ==
    /\ lastOp = "requestSpawn"
    /\ gameInProgress
    /\ Len(emitted) = 1
    /\ emitted[1].name = "spawnRejected"
    /\ emitted[1].data.reason = "game_in_progress"
    /\ spawnSlots[emitted[1].data.position].playerId = emitted[1].sock

ToAllEvents(name) == SelectSeq(emitted, LAMBDA e : e.name = name /\ e.to = "all")
ToAllEventsNext(name) == SelectSeq(emitted', LAMBDA e : e.name = name /\ e.to = "all")

BothSlotsOccupied == spawnSlots["top"].occupied /\ spawnSlots["bottom"].occupied

\* C5, while a match counts down: exactly one interval is live, the one
\* gameTimer names, and its timeLeft is the value broadcast last; with no match
\* counting down no interval is live, so no further value can follow.
C5_OneClock ==
    IF gameInProgress
    THEN /\ gameTimer # Null
         /\ timers = {[h |-> gameTimer, timeLeft |-> lastTimerValue]}
         /\ lastTimerValue \in 1..GameSeconds
    ELSE timers = {} /\ gameTimer = Null

\* C5, the steps: the spawn that fills the second slot broadcasts
\* gameTimerUpdate 30 last; each countdown firing broadcasts the previous value
\* minus one; a firing that broadcasts a value above 0 does nothing else, and
\* the one that broadcasts 0 ends the match with one gameEnd; gameEnd is
\* broadcast by no step other than one that ends a running match.
C5_Steps ==
    /\ (~BothSlotsOccupied /\ BothSlotsOccupied')
          => /\ gameInProgress'
             /\ emitted'[Len(emitted')] = ToAll("gameTimerUpdate", GameSeconds)
             /\ Len(ToAllEventsNext("gameTimerUpdate")) = 1
    /\ lastOp' = "countdown"
          => /\ gameInProgress
             /\ emitted'[1] = ToAll("gameTimerUpdate", lastTimerValue - 1)
             /\ Len(ToAllEventsNext("gameTimerUpdate")) = 1
             /\ IF lastTimerValue - 1 = 0
                THEN /\ ~gameInProgress'
                     /\ gameEndScores' # <<>>
                     /\ Len(ToAllEventsNext("gameEnd")) = 1
                ELSE /\ gameInProgress'
                     /\ Len(emitted') = 1
                     /\ UNCHANGED <<spawnSlots, players, knives, gameEndScores>>
    /\ Len(ToAllEventsNext("gameEnd")) > 0
          => /\ gameInProgress /\ ~gameInProgress'
             /\ Len(ToAllEventsNext("gameEnd")) = 1
    /\ (lastOp' # "countdown" /\ ~(~BothSlotsOccupied /\ BothSlotsOccupied'))
          => Len(ToAllEventsNext("gameTimerUpdate")) = 0

\* C5: the countdown starts at 30 when the second slot fills, goes down by
\* exactly one per firing to 0, and the match then ends with one gameEnd, after
\* which no timer value or gameEnd follows for it.
C5_Countdown == [](C5_OneClock) /\ [][C5_Steps]_vars

\* C5 witness: the countdown has just broadcast 0 and ended the match.
C5_Witness ==
    /\ lastOp = "countdown"
    /\ ~gameInProgress
    /\ emitted[1] = ToAll("gameTimerUpdate", 0)
    /\ Len(ToAllEvents("gameEnd")) = 1

\* C6: when one of the two players disconnects while the match counts down,
\* that step leaves both slots empty, no player record, no projectile, the
\* match not in progress, and has broadcast gameEnd with the stored snapshot.
C6_DisconnectEndsMatch ==
    [][\A c \in Conns :
          (/\ lastOp' = "disconnect"
           /\ gameInProgress
           /\ c \in Occupants
           /\ DisconnectOf(c))
          => /\ \A p \in Positions : spawnSlots'[p] = EmptySlot
             /\ players' = <<>>
             /\ knives' = <<>>
             /\ ~gameInProgress'
             /\ timers' = {}
             /\ gameEndScores' # <<>>
             /\ ToAllEventsNext("gameEnd") =
                    <<ToAll("gameEnd", [scores |-> gameEndScores'[1]])>>
             /\ ~crashed']_vars

\* C6 witness: a player's disconnect has just ended a match in which a knife
\* was in flight or the other player still had a record (the snapshot names
\* the player who stayed).
C6_Witness ==
    /\ lastOp = "disconnect"
    /\ Len(ToAllEvents("gameEnd")) = 1
    /\ gameEndScores # <<>>
    /\ Cardinality(DOMAIN gameEndScores[1]) = 1
    /\ DOMAIN gameEndScores[1] \subseteq sockets
    /\ players = <<>>

(* ------------------------- game loop properties ---------------------- *)
\* The claims' own reading of the geometry.
FartherThan(x1, y1, x2, y2, r) ==
    (x1 - x2) * (x1 - x2) + (y1 - y2) * (y1 - y2) > r * r
OutsideArena(x, y) == FartherThan(x, y, 400, 300, 250)
CandidateOutside(k) == OutsideArena(k.x + k.dx, k.y + k.dy)
\* the players other than the shooter within 25 units of k's candidate
Victims(k) ==
    {players[j].id : j \in {i \in DOMAIN players :
        /\ players[i].id # k.shooterId
        /\ ~FartherThan(k.x + k.dx, k.y + k.dy, players[i].x, players[i].y, 25)}}
Hits(k) == ~CandidateOutside(k) /\ Victims(k) # {}
PointsOf(ps, id) == GetPlayer(ps, id).points
KnifeById(ks, id) == ks[CHOOSE i \in DOMAIN ks : ks[i].id = id]

\* C7: in a run of the game loop every projectile whose candidate position is
\* farther than 250 from (400,300) is removed from the live set by that run,
\* and no projectile the run leaves in the live set has been given a position
\* outside the arena.
C7_Step ==
    lastOp' = "gameLoop" =>
        /\ \A i \in DOMAIN knives :
              CandidateOutside(knives[i]) => knives[i].id \notin KnifeIds(knives')
        /\ \A j \in DOMAIN knives' :
              \/ ~OutsideArena(knives'[j].x, knives'[j].y)
              \/ /\ knives'[j].id \in KnifeIds(knives)
                 /\ KnifeById(knives, knives'[j].id) = knives'[j]

\* C7: every run of the game loop removes each projectile whose candidate is
\* outside the radius-250 arena and commits no position outside it.
C7_OutOfBoundsRemoved == [][C7_Step]_vars

\* C8: in a run of the game loop every projectile whose in-bounds candidate is
\* within 25 units of a player other than its shooter is removed; one knifeHit
\* naming it, one of those players and its shooter is emitted for it; a shooter
\* with a record gains one point per such projectile; and no knifeHit names
\* the shooter as the player hit.
C8_Step ==
    lastOp' = "gameLoop" =>
        /\ \A i \in DOMAIN knives :
              Hits(knives[i]) =>
                 /\ knives[i].id \notin KnifeIds(knives')
                 /\ Len(SelectSeq(emitted', LAMBDA e :
                          /\ e.name = "knifeHit"
                          /\ e.data.knifeId = knives[i].id
                          /\ e.data.hitPlayerId \in Victims(knives[i])
                          /\ e.data.shooterId = knives[i].shooterId)) = 1
        /\ \A c \in PlayerIds(players) :
              /\ HasPlayer(players', c)
              /\ PointsOf(players', c) = PointsOf(players, c) +
                    Cardinality({i \in DOMAIN knives :
                                    Hits(knives[i]) /\ knives[i].shooterId = c})
        /\ \A n \in DOMAIN emitted' :
              emitted'[n].name = "knifeHit"
                 => emitted'[n].data.hitPlayerId # emitted'[n].data.shooterId

\* C8: every run of the game loop removes each projectile that hits a player
\* other than its shooter, credits the shooter one point and emits one knifeHit
\* for it, and never reports a shooter as hit by its own projectile.
C8_HitScores == [][C8_Step]_vars

(* --------------------------- client reports --------------------------- *)
CoreOf(s) == <<s.spawnSlots, s.players, s.knives, s.gameInProgress,
               s.gameEndScores, s.gameTimer, s.timers, s.crashed>>
Again(s) == [s EXCEPT !.emitted = <<>>]

\* C9, applied twice: in every reachable state, a second destroyKnife or
\* knifeHit for the same id leaves the state the first one left, raises no
\* error, and emits nothing (destroyKnife) or only the reported event again
\* (knifeHit).
C9_TwiceIsOnce ==
    \A c \in sockets, id \in KnifeIdRange :
        LET d1 == destroyKnife(Cur, c, id)
            d2 == destroyKnife(Again(d1), c, id)
            h1 == knifeHit(Cur, c, HitReport(id))
            h2 == knifeHit(Again(h1), c, HitReport(id))
        IN  /\ CoreOf(d2) = CoreOf(d1)
            /\ d2.emitted = <<>>
            /\ CoreOf(h2) = CoreOf(h1)
            /\ h2.emitted = <<ToAll("knifeHit", HitReport(id))>>

\* C9, an absent id: a destroyKnife or knifeHit naming an id that is not in
\* the live set raises no error and leaves projectiles, players, slots and
\* match state unchanged; destroyKnife then emits nothing, knifeHit only the
\* report itself; and after either report the id is not in the live set.
C9_Step ==
    \A c \in Conns, id \in KnifeIdRange :
        /\ (lastOp' = "destroyKnife" /\ DestroyKnifeOf(c, id))
              => /\ id \notin KnifeIds(knives')
                 /\ ~crashed'
                 /\ UNCHANGED <<spawnSlots, players, gameInProgress,
                                gameEndScores, gameTimer, timers>>
                 /\ id \notin KnifeIds(knives)
                       => (UNCHANGED knives /\ emitted' = <<>>)
        /\ (lastOp' = "knifeHit" /\ KnifeHitOf(c, id))
              => /\ id \notin KnifeIds(knives')
                 /\ ~crashed'
                 /\ UNCHANGED <<spawnSlots, players, gameInProgress,
                                gameEndScores, gameTimer, timers>>
                 /\ emitted' = <<ToAll("knifeHit", HitReport(id))>>
                 /\ id \notin KnifeIds(knives) => UNCHANGED knives

\* C9: destroyKnife and knifeHit reports for an absent id are no-ops on the
\* state, and a repeated report leaves the state of the first one.
C9_ReportsIdempotent == [](C9_TwiceIsOnce) /\ [][C9_Step]_vars

\* C9 witness: every knife id handed out is gone from the live set and a
\* destroyKnife naming one of them has just run without emitting anything.
C9_Witness ==
    /\ lastOp = "destroyKnife"
    /\ emitted = <<>>
    /\ knifeSeq = MaxKnives
    /\ knives = <<>>

(* ----------------------------- final scores --------------------------- *)
\* C10: when a countdown firing ends the match, the scores stored and
\* broadcast with gameEnd map exactly the two slot occupants, each to the hits
\* the game loop credited to that player during the match, and both slots are
\* empty afterwards.
C10_Step ==
    (lastOp' = "countdown" /\ ~gameInProgress') =>
        /\ Cardinality(Occupants) = 2
        /\ gameEndScores' = <<[id \in Occupants |-> credited[id]]>>
        /\ ToAllEventsNext("gameEnd") =
               <<ToAll("gameEnd", [scores |-> [id \in Occupants |-> credited[id]]])>>
        /\ \A p \in Positions : spawnSlots'[p] = EmptySlot

\* C10: the gameEnd scores of a match the countdown ends are the two slot
\* occupants mapped to the hits credited to them, and both slots are emptied.
C10_FinalScores == [][C10_Step]_vars

\* C10 witness: the countdown has just ended a match with scores {A:1, B:0}.
C10_Witness ==
    /\ lastOp = "countdown"
    /\ ~gameInProgress
    /\ gameEndScores # <<>>
    /\ \E a, b \in DOMAIN gameEndScores[1] :
          /\ a # b
          /\ gameEndScores[1][a] = 1
          /\ gameEndScores[1][b] = 0
    /\ \A p \in Positions : ~spawnSlots[p].occupied

(* ------------------------- match state and slots ---------------------- *)
\* C11: in every reachable state a match that counts down has both slots
\* occupied, and with no match counting down at least one slot is empty.
C11_CountdownIffBothSlots ==
    /\ gameInProgress => BothSlotsOccupied
    /\ ~gameInProgress => \E p \in Positions : ~spawnSlots[p].occupied

\* C11 witness: a match counts down with both slots occupied while a third
\* connection that holds no slot has just been refused a spawn.
C11_Witness ==
    /\ gameInProgress
    /\ BothSlotsOccupied
    /\ lastOp = "requestSpawn"
    /\ Len(emitted) = 1
    /\ emitted[1].name = "spawnRejected"
    /\ emitted[1].sock \notin Occupants

(* ------------------------ a shooter with no record -------------------- *)
\* C12: in a run of the game loop, for every projectile whose in-bounds
\* candidate is within 25 units of a player other than its shooter while no
\* player record exists for its shooterId: no record is created for the
\* shooter, the projectile is removed, one knifeHit naming it is emitted, no
\* pointsUpdate names the shooter, the run raises no error, and every
\* projectile after it in the live set is processed (removed or moved to its
\* candidate).
C12_Step ==
    lastOp' = "gameLoop" =>
        \A i \in DOMAIN knives :
            (Hits(knives[i]) /\ ~HasPlayer(players, knives[i].shooterId)) =>
                /\ ~HasPlayer(players', knives[i].shooterId)
                /\ knives[i].id \notin KnifeIds(knives')
                /\ Len(SelectSeq(emitted', LAMBDA e :
                         /\ e.name = "knifeHit"
                         /\ e.data.knifeId = knives[i].id
                         /\ e.data.shooterId = knives[i].shooterId)) = 1
                /\ Len(SelectSeq(emitted', LAMBDA e :
                         /\ e.name = "pointsUpdate"
                         /\ e.data.playerId = knives[i].shooterId)) = 0
                /\ ~crashed'
                /\ \A j \in DOMAIN knives :
                      (j > i /\ knives[j].id \in KnifeIds(knives')) =>
                          /\ KnifeById(knives', knives[j].id).x
                                 = knives[j].x + knives[j].dx
                          /\ KnifeById(knives', knives[j].id).y
                                 = knives[j].y + knives[j].dy

\* C12: a hit by a projectile whose shooter has no player record is handled
\* by the game loop without a score change, with the projectile removed, the
\* knifeHit emitted, no pointsUpdate, and the rest of the run carried out.
C12_ShooterlessHit == [][C12_Step]_vars

(* --------------------------- leaving a match -------------------------- *)
\* C13: a step that takes the match out of the countdown is either the
\* countdown firing that reaches 0 or the disconnect of a connection that
\* holds a player record; and the disconnect of a connection that holds no
\* player record during a countdown leaves the match counting down with
\* slots, players (and their scores), projectiles, snapshot and timer as
\* they were.
C13_Step ==
    /\ (gameInProgress /\ ~gameInProgress') =>
          \/ lastOp' = "countdown" /\ lastTimerValue = 1
          \/ /\ lastOp' = "disconnect"
             /\ \E c \in PlayerIds(players) : sockets' = sockets \ {c}
    /\ \A c \in Conns :
          (/\ lastOp' = "disconnect"
           /\ gameInProgress
           /\ ~HasPlayer(players, c)
           /\ DisconnectOf(c))
          => /\ gameInProgress'
             /\ UNCHANGED core

\* C13: the countdown is left only by reaching zero or by the disconnect of
\* a connection that holds a player record; other disconnects change nothing.
C13_OnlyPlayersEndMatch == [][C13_Step]_vars

(* ------------------------ what a match end tells ---------------------- *)
\* C14: every step that takes the match out of the countdown ends with four
\* broadcasts: gameEnd with the stored snapshot, spawnSlotsUpdate with both
\* slots empty, a playerLeft whose list holds the id of every player whose
\* record the match end removed (every record of the state before, but that
\* of a connection that disconnects in the step and is announced on its own),
\* and knivesUpdate with the empty list.
C14_Step ==
    (gameInProgress /\ ~gameInProgress') =>
        LET n == Len(emitted')
            removed == PlayerIds(players) \ (sockets \ sockets')
        IN  /\ n >= 4
            /\ emitted'[n - 3] = ToAll("gameEnd", [scores |-> gameEndScores'[1]])
            /\ emitted'[n - 2] =
                   ToAll("spawnSlotsUpdate", [p \in Positions |-> EmptySlot])
            /\ emitted'[n - 1].name = "playerLeft"
            /\ emitted'[n - 1].to = "all"
            /\ \A c \in removed :
                  \E i \in DOMAIN emitted'[n - 1].data :
                      emitted'[n - 1].data[i] = c
            /\ emitted'[n] = ToAll("knivesUpdate", <<>>)
            /\ players' = <<>>

\* C14: the playerLeft broadcast of a match end lists every player the match
\* end removed, next to the snapshot, the cleared slots and the empty
\* projectile list.
C14_MatchEndListsRemoved == [][C14_Step]_vars

(* --------------------------- the final scores ------------------------- *)
\* C15, the states: while a match counts down no snapshot is stored; and in
\* a state that stores one, every requestSpawn that fills the second slot
\* yields a state with a match counting down and no snapshot.
C15_NoSnapshotInMatch ==
    /\ gameInProgress => gameEndScores = <<>>
    /\ \A c \in sockets, p \in Positions :
          requestSpawn(Cur, c, p).gameInProgress
              => requestSpawn(Cur, c, p).gameEndScores = <<>>

\* C15, the steps: a snapshot comes into being or changes only in a step
\* that ends a match, every step that ends a match stores one, and a snapshot
\* goes away only in the step that starts the next match, which every match
\* start does.
C15_Step ==
    /\ (gameEndScores' # gameEndScores /\ gameEndScores' # <<>>)
          => (gameInProgress /\ ~gameInProgress')
    /\ (gameInProgress /\ ~gameInProgress') => gameEndScores' # <<>>
    /\ (gameEndScores # <<>> /\ gameEndScores' = <<>>)
          => (~gameInProgress /\ gameInProgress' /\ lastOp' = "requestSpawn")
    /\ (~gameInProgress /\ gameInProgress') => gameEndScores' = <<>>

\* C15: no snapshot of final scores is stored while a match counts down; the
\* spawn that fills the second slot clears the one of the previous match; a
\* snapshot exists only from the end of a match to the start of the next.
C15_SnapshotOnlyBetweenMatches == [](C15_NoSnapshotInMatch) /\ [][C15_Step]_vars

\* C15 witness: the snapshot of an ended match is stored, one slot has been
\* taken again, and the requestSpawn of a connected socket for the empty slot
\* starts the next match and leaves no snapshot.
C15_Witness ==
    /\ gameEndScores # <<>>
    /\ lastOp = "requestSpawn"
    /\ \E c \in sockets, p \in Positions :
          /\ spawnSlots[OtherPosition(p)].occupied
          /\ ~spawnSlots[p].occupied
          /\ requestSpawn(Cur, c, p).gameInProgress
          /\ requestSpawn(Cur, c, p).gameEndScores = <<>>

(* --------------------------- unhandled errors ------------------------- *)
\* C16: in no reachable state has a handler, a run of the game loop or a
\* countdown firing ended with an uncaught error, whatever requestSpawn, move,
\* knife, destroyKnife, knifeHit, pointsUpdate, connect and disconnect
\* intents, game loop runs and countdown firings came before.
C16_NoUnhandledError == ~crashed

(* --------------------------- the countdown timer ---------------------- *)
\* C17, the states: at most one interval is live; one is live exactly while
\* a match counts down; and the live one is the interval of the current
\* match: gameTimer is its handle and its timeLeft is the value broadcast
\* last for this match.
C17_OneTimer ==
    /\ Cardinality(timers) <= 1
    /\ gameInProgress <=> timers # {}
    /\ \A t \in timers : t.h = gameTimer /\ t.timeLeft = lastTimerValue

\* C17, the steps: a countdown firing happens only while a match counts
\* down, broadcasts the value that follows the last one of that match, and
\* broadcasts gameEnd at most once; a step that ends a match leaves no
\* interval live, so that none of its firings can follow; and a step that
\* starts a match leaves one interval, with the full time left.
C17_Step ==
    /\ lastOp' = "countdown"
          => /\ gameInProgress
             /\ ToAllEventsNext("gameTimerUpdate")
                    = <<ToAll("gameTimerUpdate", lastTimerValue - 1)>>
             /\ lastTimerValue - 1 >= 0
             /\ Len(ToAllEventsNext("gameEnd")) <= 1
    /\ (gameInProgress /\ ~gameInProgress')
          => (timers' = {} /\ gameTimer' = Null)
    /\ (~gameInProgress /\ gameInProgress')
          => timers' = {[h |-> gameTimer', timeLeft |-> GameSeconds]}

\* C17: at most one countdown timer is live, one is live exactly while a
\* match counts down, and the timer of an ended match never fires again,
\* also after a new match has started.
C17_NoStaleTimer == [](C17_OneTimer) /\ [][C17_Step]_vars

\* C17 witness: a disconnect has just ended a match before its countdown ran
\* out, and no interval is live.
C17_Witness ==
    /\ lastOp = "disconnect"
    /\ ~gameInProgress
    /\ Len(ToAllEvents("gameEnd")) = 1
    /\ timers = {}
    /\ gameTimer = Null

(* ----------------------------- a new connection ----------------------- *)
\* C18: a connection step sends to the new socket only, first
\* spawnSlotsUpdate with the current slots; a gameTimerUpdate, with the value
\* 30, exactly when a match counts down; a gameEnd, with the stored snapshot,
\* exactly when one is stored; nothing else; and it changes no slot, player,
\* projectile, match state, snapshot or timer.
C18_Step ==
    lastOp' = "connection" =>
        LET timerMsgs == SelectSeq(emitted', LAMBDA e : e.name = "gameTimerUpdate")
            endMsgs == SelectSeq(emitted', LAMBDA e : e.name = "gameEnd")
        IN  /\ sockets' = sockets \cup {nextConn}
            /\ nextConn \notin sockets
            /\ \A i \in DOMAIN emitted' :
                  emitted'[i].to = "socket" /\ emitted'[i].sock = nextConn
            /\ emitted'[1] = ToSocket(nextConn, "spawnSlotsUpdate", spawnSlots)
            /\ Len(timerMsgs) = IF gameInProgress THEN 1 ELSE 0
            /\ \A i \in DOMAIN timerMsgs : timerMsgs[i].data = 30
            /\ Len(endMsgs) = IF gameEndScores # <<>> THEN 1 ELSE 0
            /\ \A i \in DOMAIN endMsgs :
                  endMsgs[i].data = [scores |-> gameEndScores[1]]
            /\ Len(emitted') = 1 + Len(timerMsgs) + Len(endMsgs)
            /\ ~crashed'
            /\ UNCHANGED core

\* C18: a new connection is sent the slot state, the nominal timer value 30
\* exactly during a countdown and the snapshot exactly when one is stored, and
\* connecting changes no server state.
C18_NewConnection == [][C18_Step]_vars

\* C18 witness: a socket has just connected during a countdown that has
\* already gone below 30 and was sent the slots and the timer value 30.
C18_Witness ==
    /\ lastOp = "connection"
    /\ gameInProgress
    /\ lastTimerValue < GameSeconds
    /\ Len(emitted) = 2
    /\ emitted[1].name = "spawnSlotsUpdate"
    /\ emitted[2].name = "gameTimerUpdate"
    /\ emitted[2].data = 30

(* ------------------------------- firing ------------------------------- *)
\* C19: a knife intent of a connection that has a player record, with or
\* without a match counting down, leaves every live projectile as it was and
\* in its place, adds one projectile under an id no live projectile has,
\* carrying the position, velocity and shooterId sent, broadcasts knifeFired
\* for it to all connections, and changes nothing else.
C19_Step ==
    \A c \in Conns, shot \in KnifeShots :
        (lastOp' = "knife" /\ HasPlayer(players, c) /\ KnifeBy(c, shot, MaxKnives))
        => /\ Len(knives') = Len(knives) + 1
           /\ SubSeq(knives', 1, Len(knives)) = knives
           /\ LET k == knives'[Len(knives')]
              IN  /\ k.id \notin KnifeIds(knives)
                  /\ <<k.x, k.y, k.dx, k.dy>> = shot
                  /\ k.shooterId = c
                  /\ emitted' = <<ToAll("knifeFired", k)>>
           /\ ~crashed'
           /\ UNCHANGED <<spawnSlots, players, gameInProgress, gameEndScores,
                          gameTimer, timers>>

\* C19: a knife intent of a connection with a player record is accepted in
\* every match state, adds exactly one projectile, leaves the others alone
\* and is broadcast to all connections, the sender included.
C19_FireAccepted == [][C19_Step]_vars

\* C19 witness: during a countdown a player has just fired a second knife
\* while the first one is still in flight.
C19_Witness ==
    /\ lastOp = "knife"
    /\ gameInProgress
    /\ Len(knives) = 2
    /\ HasPlayer(players, knives[2].shooterId)
    /\ emitted = <<ToAll("knifeFired", knives[2])>>

\* C20: a step adds a projectile to the live set only if it is the knife
\* intent of a connection that has a player record, and the projectile then
\* carries that connection's id as shooterId; the knife intent of a
\* connection with no player record leaves the live set as it was.
C20_Step ==
    /\ (KnifeIds(knives') \ KnifeIds(knives) # {}) =>
          \E c \in PlayerIds(players), shot \in KnifeShots :
              /\ KnifeBy(c, shot, MaxKnives)
              /\ \A i \in DOMAIN knives' :
                    knives'[i].id \notin KnifeIds(knives)
                        => knives'[i].shooterId = c
    /\ \A c \in Conns, shot \in KnifeShots :
          (lastOp' = "knife" /\ ~HasPlayer(players, c)
              /\ KnifeBy(c, shot, MaxKnives))
          => knives' = knives

\* C20: projectiles are created only by knife intents of connections that
\* have a player record, with that player as shooter; a knife intent of a
\* connection without one adds nothing.
C20_OnlyPlayersFire == [][C20_Step]_vars

(* ------------------------- despawn and side switch -------------------- *)
\* C21: with no match counting down, a requestSpawn of a player for the slot
\* that player holds empties that slot, removes that player's record and no
\* other, broadcasts spawnSlotsUpdate with the new slots and playerLeft with
\* the player's id to all, and leaves the other slot, the projectiles, the
\* match state, the snapshot and the timer as they were.
C21_Step ==
    \A c \in Conns, p \in Positions :
        (/\ lastOp' = "requestSpawn"
         /\ ~gameInProgress
         /\ spawnSlots[p].playerId = c
         /\ RequestSpawnBy(c, p))
        => /\ spawnSlots'[p] = EmptySlot
           /\ spawnSlots'[OtherPosition(p)] = spawnSlots[OtherPosition(p)]
           /\ ~HasPlayer(players', c)
           /\ players' = SelectSeq(players, LAMBDA r : r.id # c)
           /\ emitted' = <<ToAll("spawnSlotsUpdate", spawnSlots'),
                           ToAll("playerLeft", c)>>
           /\ ~crashed'
           /\ UNCHANGED <<knives, gameInProgress, gameEndScores, gameTimer, timers>>

\* C21: outside a match, requesting the slot one holds is a despawn that
\* touches nothing but that slot and that player's record.
C21_ToggleDespawns == [][C21_Step]_vars

\* C21 witness: a player has just despawned by requesting the held slot while
\* a knife was in flight; the slot is empty, the record gone, the knife there.
C21_Witness ==
    /\ lastOp = "requestSpawn"
    /\ Len(emitted) = 2
    /\ emitted[1].name = "spawnSlotsUpdate"
    /\ emitted[2].name = "playerLeft"
    /\ emitted[2].data \in sockets
    /\ ~HasPlayer(players, emitted[2].data)
    /\ \A p \in Positions : spawnSlots[p].playerId # emitted[2].data
    /\ knives # <<>>

\* C22: with no match counting down, a requestSpawn of a player who holds
\* one slot for the other, empty slot leaves that player in the requested
\* slot only, the slot held before empty, the player's record at the
\* requested slot's coordinate ((400,200) for top, (400,400) for bottom) with
\* 0 points, and no match counting down and no timer running.
C22_Step ==
    \A c \in Conns, p \in Positions :
        (/\ lastOp' = "requestSpawn"
         /\ ~gameInProgress
         /\ spawnSlots[OtherPosition(p)].playerId = c
         /\ ~spawnSlots[p].occupied
         /\ RequestSpawnBy(c, p))
        => /\ spawnSlots'[p] = [occupied |-> TRUE, playerId |-> c]
           /\ spawnSlots'[OtherPosition(p)] = [occupied |-> FALSE, playerId |-> 0]
           /\ HasPlayer(players', c)
           /\ GetPlayer(players', c).x = 400
           /\ GetPlayer(players', c).y = (IF p = "top" THEN 200 ELSE 400)
           /\ GetPlayer(players', c).points = 0
           /\ GetPlayer(players', c).spawnPosition = p
           /\ Len(players') = Len(players)
           /\ ~gameInProgress'
           /\ timers' = {}
           /\ Len(ToAllEventsNext("gameTimerUpdate")) = 0
           /\ ~crashed'

\* C22: a pre-match side switch moves the player to the requested slot and
\* its coordinate with score 0, frees the old slot and starts no match.
C22_SideSwitch == [][C22_Step]_vars

\* C22 witness: a player has just switched sides: the handler logged the
\* slot left, and the record, the only one, is at the new slot's coordinate.
C22_Witness ==
    /\ lastOp = "requestSpawn"
    /\ ~gameInProgress
    /\ Len(emitted) = 5
    /\ emitted[1].to = "console"
    /\ emitted[3].name = "players"
    /\ Len(players) = 1
    /\ players[1].id = emitted[1].sock
    /\ players[1].spawnPosition = OtherPosition(emitted[1].data)
    /\ players[1].y = SpawnY(players[1].spawnPosition)
    /\ spawnSlots[players[1].spawnPosition].playerId = players[1].id
    /\ ~spawnSlots[emitted[1].data].occupied

(* ------------------------------ the scores ---------------------------- *)
\* the knifeHit events of the step that name c as the shooter
HitsRegisteredFor(c) ==
    Len(SelectSeq(emitted', LAMBDA e : e.name = "knifeHit" /\ e.to = "all"
                                          /\ e.data.shooterId = c))

\* C23: a pointsUpdate or knifeHit intent leaves every player record and the
\* snapshot as they were; and in any step the points of a player who has a
\* record before and after it change only in a run of the game loop, by one
\* for each hit the run registers for that player, or in a requestSpawn that
\* creates the record anew with 0 points.
C23_Step ==
    /\ lastOp' \in {"pointsUpdate", "knifeHit"}
          => UNCHANGED <<players, gameEndScores>>
    /\ \A c \in PlayerIds(players) \cap PlayerIds(players') :
          PointsOf(players', c) # PointsOf(players, c)
          => \/ /\ lastOp' = "gameLoop"
                /\ PointsOf(players', c) = PointsOf(players, c) + HitsRegisteredFor(c)
             \/ /\ lastOp' = "requestSpawn"
                /\ PointsOf(players', c) = 0
    /\ \A c \in PlayerIds(players') \ PlayerIds(players) :
          lastOp' = "requestSpawn" /\ PointsOf(players', c) = 0

\* C23: client-sent pointsUpdate and knifeHit never change a score or the
\* snapshot; scores change by +1 per hit the game loop registers, or by the
\* record being created or removed.
C23_ScoresServerSide == [][C23_Step]_vars

\* C23 witness: a client has just sent pointsUpdate {playerId: 1, points: 7}
\* while player 1 has the one point the game loop credited.
C23_Witness ==
    /\ lastOp = "pointsUpdate"
    /\ emitted = <<ToAll("pointsUpdate", [playerId |-> 1, points |-> 7])>>
    /\ HasPlayer(players, 1)
    /\ PointsOf(players, 1) = 1
    /\ credited[1] = 1

(* -------------------- client reports and the game loop ---------------- *)
\* the ids handed out that are no longer in the live set
GoneKnives == (1..knifeSeq) \ KnifeIds(knives)

\* C24: a projectile that has left the live set, by a client's destroyKnife
\* or knifeHit or by the game loop, never is in it again; a run of the game
\* loop emits knifeHit and knivesUpdate entries only for projectiles that were
\* live when it began and credits points only for those it emits a knifeHit
\* for; a destroyKnife or knifeHit report takes its projectile out of the live
\* set at once, and one that names a projectile already gone changes no
\* projectile, player or credit.
C24_Step ==
    /\ \A id \in GoneKnives : id \notin KnifeIds(knives')
    /\ lastOp' = "gameLoop" =>
          /\ \A n \in DOMAIN emitted' :
                /\ emitted'[n].name = "knifeHit"
                      => emitted'[n].data.knifeId \in KnifeIds(knives)
                /\ emitted'[n].name = "knivesUpdate"
                      => KnifeIds(emitted'[n].data) \subseteq KnifeIds(knives)
          /\ \A c \in Conns :
                credited'[c] = credited[c] + Cardinality(
                    {i \in DOMAIN knives :
                        /\ knives[i].shooterId = c
                        /\ HasPlayer(players, c)
                        /\ \E n \in DOMAIN emitted' :
                              /\ emitted'[n].name = "knifeHit"
                              /\ emitted'[n].data.knifeId = knives[i].id})
    /\ \A c \in Conns, id \in KnifeIdRange :
          (\/ lastOp' = "destroyKnife" /\ DestroyKnifeOf(c, id)
           \/ lastOp' = "knifeHit" /\ KnifeHitOf(c, id))
          => /\ id \notin KnifeIds(knives')
             /\ id \notin KnifeIds(knives)
                   => UNCHANGED <<knives, players, credited>>

\* C24: once a client report or the game loop has removed a projectile, no
\* later run of the game loop moves it, reports a hit by it or credits a point
\* for it, and a later report for it changes nothing.
C24_RemovedStaysRemoved == [][C24_Step]_vars

\* C24 witness: a destroyKnife has just removed a live knife (the removal was
\* announced) while another knife stays in flight for the next game loop run.
C24_Witness ==
    /\ lastOp = "destroyKnife"
    /\ Len(emitted) = 1
    /\ emitted[1].name = "knifeDestroyed"
    /\ emitted[1].data.knifeId \in GoneKnives
    /\ knives # <<>>

(* ------------------------- the match comes to an end ------------------ *)
\* C25, the states: while a match counts down the server is running and the
\* interval of the match is live with 1 to 30 seconds left; its next firing
\* brings the time left down by one and, from 1, ends the match. So a timer
\* that keeps firing ends the match after at most 30 firings.
C25_CanFinish ==
    gameInProgress =>
        /\ ~crashed
        /\ \E t \in timers :
              /\ t.timeLeft \in 1..GameSeconds
              /\ TimerFired(Cur, t).lastTimerValue = t.timeLeft - 1
              /\ t.timeLeft = 1 => ~TimerFired(Cur, t).gameInProgress

\* C25, the steps: with no match counting down no requestSpawn is refused
\* for a match in progress, and a spawn that fills the second slot starts a
\* countdown at 30.
C25_Step ==
    (lastOp' = "requestSpawn" /\ ~gameInProgress) =>
        /\ \A n \in DOMAIN emitted' :
              emitted'[n].name = "spawnRejected"
                  => emitted'[n].data.reason # "game_in_progress"
        /\ BothSlotsOccupied' =>
              /\ gameInProgress'
              /\ timers' = {[h |-> gameTimer', timeLeft |-> GameSeconds]}
              /\ emitted'[Len(emitted')] = ToAll("gameTimerUpdate", GameSeconds)

\* C25: every match that counts down can be brought to its end by at most
\* 30 firings of its timer, and after the end spawn requests are accepted
\* again and the spawn that fills both slots starts a countdown at 30.
C25_MatchEnds == [](C25_CanFinish) /\ [][C25_Step]_vars

(* ------------------------- scores at the match start ------------------ *)
\* C26, the states: with no match counting down every player record has 0
\* points, whatever spawns, side switches, knives and game loop runs came
\* before.
C26_NoPointsOutsideMatch ==
    ~gameInProgress => \A i \in DOMAIN players : players[i].points = 0

\* C26, the step: in the state a step that starts a match leaves, there are
\* two player records and both have 0 points.
C26_Step ==
    (~gameInProgress /\ gameInProgress') =>
        /\ Len(players') = 2
        /\ \A i \in DOMAIN players' : players'[i].points = 0

\* C26: when a match starts counting down both players have 0 points.
C26_MatchStartsAtZero == [](C26_NoPointsOutsideMatch) /\ [][C26_Step]_vars

\* C26 witness: a match has just started while a knife that one of its
\* players fired before the match is in flight; both scores are 0.
C26_Witness ==
    /\ lastOp = "requestSpawn"
    /\ gameInProgress
    /\ lastTimerValue = GameSeconds
    /\ Len(players) = 2
    /\ \A i \in DOMAIN players : players[i].points = 0
    /\ \E j \in DOMAIN knives : HasPlayer(players, knives[j].shooterId)

(* ------------------------- records and occupants ---------------------- *)
\* C27, the states: the ids that have a player record are exactly the ids
\* that occupy a slot, each id has one record, and there are at most two.
C27_RecordsAreOccupants ==
    /\ PlayerIds(players) = Occupants
    /\ Cardinality(PlayerIds(players)) = Len(players)
    /\ Len(players) <= 2

\* C27, the step: a step that ends a match leaves no player record.
C27_Step == (gameInProgress /\ ~gameInProgress') => players' = <<>>

\* C27: the player records are those of the slot occupants, never more than
\* two, and the end of a match leaves the players map empty.
C27_NoStrayRecords == [](C27_RecordsAreOccupants) /\ [][C27_Step]_vars

\* C27 witness: with three connections open, the countdown has just ended a
\* match of two players and no player record is left.
C27_Witness ==
    /\ lastOp = "countdown"
    /\ ~gameInProgress
    /\ Cardinality(sockets) = 3
    /\ gameEndScores # <<>>
    /\ Cardinality(DOMAIN gameEndScores[1]) = 2
    /\ players = <<>>
    /\ Occupants = {}

(* --------------------- the snapshot after a disconnect ---------------- *)
\* C28: when the disconnect of one of the two players ends a match, the
\* snapshot stored and broadcast with gameEnd has one entry, that of the
\* player who stayed, with that player's points, and no entry for the player
\* who disconnected.
C28_Step ==
    \A c \in Conns :
        (/\ lastOp' = "disconnect"
         /\ gameInProgress
         /\ HasPlayer(players, c)
         /\ DisconnectOf(c))
        => /\ gameEndScores' # <<>>
           /\ c \notin DOMAIN gameEndScores'[1]
           /\ DOMAIN gameEndScores'[1] = PlayerIds(players) \ {c}
           /\ Cardinality(DOMAIN gameEndScores'[1]) = 1
           /\ \A id \in DOMAIN gameEndScores'[1] :
                 gameEndScores'[1][id] = PointsOf(players, id)
           /\ ToAllEventsNext("gameEnd") =
                  <<ToAll("gameEnd", [scores |-> gameEndScores'[1]])>>

\* C28: the snapshot of a match ended by a player's disconnect holds the
\* score of the player who stayed and nothing for the one who left.
C28_SnapshotWithoutLeaver == [][C28_Step]_vars

\* C28 witness: a player has just disconnected during a match in which the
\* other player had scored a point; the snapshot has the one entry of the
\* player who stayed, with that point.
C28_Witness ==
    /\ lastOp = "disconnect"
    /\ ~gameInProgress
    /\ gameEndScores # <<>>
    /\ \E leaver \in Conns \ sockets, stayer \in sockets :
          /\ DOMAIN gameEndScores[1] = {stayer}
          /\ gameEndScores[1][stayer] = 1
          /\ emitted[2].name = "playerLeft"
          /\ emitted[2].data = leaver
          /\ emitted[3] = ToAll("gameEnd", [scores |-> gameEndScores[1]])

(* ----------------------- what a game loop run tells ------------------- *)
\* the knivesUpdate lists a step broadcasts
ListsNext == ToAllEventsNext("knivesUpdate")
NamedByHitNext(id) ==
    \E n \in DOMAIN emitted' :
        emitted'[n].name = "knifeHit" /\ emitted'[n].data.knifeId = id

\* C29 as claimed: for every projectile a run of the game loop removes, the
\* run emits a knifeHit naming it or a knivesUpdate whose list omits it; and
\* a run that changes the live set broadcasts, as its last list, the live set
\* it leaves.
C29_ClaimedStep ==
    lastOp' = "gameLoop" =>
        /\ \A id \in KnifeIds(knives) \ KnifeIds(knives') :
              \/ NamedByHitNext(id)
              \/ \E n \in DOMAIN ListsNext : id \notin KnifeIds(ListsNext[n].data)
        /\ knives' # knives =>
              /\ Len(ListsNext) >= 1
              /\ ListsNext[Len(ListsNext)].data = knives'

C29_AmendedStep ==
    lastOp' = "gameLoop" =>
        /\ \A i \in DOMAIN knives :
              knives[i].id \notin KnifeIds(knives')
                  => (CandidateOutside(knives[i]) \/ NamedByHitNext(knives[i].id))
        /\ Len(ListsNext) <= 1
        /\ Len(ListsNext) = 1 =>
              /\ emitted'[Len(emitted')] = ToAll("knivesUpdate", knives')
        /\ knives' = <<>> => Len(ListsNext) = 0
        /\ (knives' # <<>> /\ ~crashed') => Len(ListsNext) = 1

HitEventsNext(id) ==
    SelectSeq(emitted', LAMBDA e : e.name = "knifeHit" /\ e.to = "all"
                                       /\ e.data.knifeId = id)
\* the first player, in the order of the players map, that is not the
\* shooter of k and is within 25 units of k's candidate position
FirstVictim(k) ==
    players[CHOOSE i \in DOMAIN players :
               /\ players[i].id \in Victims(k)
               /\ \A j \in 1..(i - 1) : players[j].id \notin Victims(k)].id

\* C30: in a run of the game loop, for every live projectile: at most one
\* knifeHit names it; one that is named is removed by that run, so that no
\* later run can name it again; the player named as hit is the first one in
\* iteration order within 25 units of the candidate that is not the shooter;
\* a projectile whose candidate is out of bounds is named by no knifeHit; and
\* the points credited to a shooter in the run are at most the number of that
\* shooter's projectiles named by a knifeHit.
C30_Step ==
    lastOp' = "gameLoop" =>
        /\ \A i \in DOMAIN knives :
              LET k == knives[i]
              IN  /\ Len(HitEventsNext(k.id)) <= 1
                  /\ Len(HitEventsNext(k.id)) = 1 =>
                        /\ k.id \notin KnifeIds(knives')
                        /\ Victims(k) # {}
                        /\ HitEventsNext(k.id)[1].data.hitPlayerId = FirstVictim(k)
                  /\ CandidateOutside(k) => Len(HitEventsNext(k.id)) = 0
        /\ \A c \in Conns :
              credited'[c] - credited[c] <=
                  Cardinality({i \in DOMAIN knives :
                      knives[i].shooterId = c
                          /\ Len(HitEventsNext(knives[i].id)) = 1})

\* C30: a projectile causes at most one knifeHit and one score increment in
\* its lifetime: a hit removes it in the same run of the game loop, only the
\* first matching player registers, and an out-of-bounds projectile registers
\* no hit.
C30_OneHitPerKnife == [][C30_Step]_vars

====
